---- MODULE Spec2Model ----
(***************************************************************************)
(* Model of the 3D composition and export engine of clicker-designer       *)
(* (src/src/lib/Scene.svelte with the default table of                     *)
(* src/unnamed/part_003) and of the list of designs of its parent          *)
(* (src/unnamed/part_000).                                                 *)
(*                                                                         *)
(* Lengths are integers in tenths of a millimetre (4.5 mm is 45), so the   *)
(* table and LEGEND_DEPTH_MM = 1.2 keep their exact values.  Bounding      *)
(* boxes are [min |-> <<x,y,z>>, max |-> <<x,y,z>>] in the asset's own     *)
(* (Z-up) axes; the catalogue boxes have even min+max so that the centre   *)
(* (min+max)/2 is exact.                                                   *)
(***************************************************************************)
EXTENDS Integers, Sequences, FiniteSets, TLC

VARIABLES
    numberOfKeys,         \* prop numberOfKeys
    keycapPositionsProp,  \* prop keycapPositions (<<>> when not provided)
    keycapLetters,        \* prop keycapLetters
    keycapSvgUrls,        \* prop keycapSvgUrls (Null or a URL per key)
    showBorder,           \* prop showBorder
    clickerGeometry,      \* geometryStores: body mesh per key count, NoGeometry until loaded
    keycapGeometryStore,  \* keycap mesh, NoGeometry until loaded
    borderGeometryStore,  \* border mesh, NoGeometry until loaded
    font,                 \* TRUE once the font has loaded
    svgGeometryByUrl,     \* legend cache: URL -> 0 (absent) or the id of the cached geometry
    inFlight,             \* URL -> number of fetches started and not yet settled
    exportCall,           \* the exportKeycapStl call made by the latest step, if any
    downloads,            \* files whose download the latest step triggered
    stlCallbacks,         \* onKeycapStlDownloaded calls made by the latest step
    threw,                \* TRUE when the latest step's export call ended by an exception
    disposed,             \* geometries the latest step's export call disposed
    leaked,               \* geometries it allocated for a composite and did not dispose
    lastFetch,            \* the fetch the latest step settled, if any
    exportKeycapStlFn,    \* the export function the parent holds, once handed over
    threlte,              \* which of renderer, scene and camera the context provides
    takeSnapshotFn,       \* TRUE once the parent holds the snapshot function
    snapshot,             \* the latest takeSnapshot call and how far its image got
    canvas,               \* a pixel buffer and the image pixelsToDataUrl made of it
    iconGeometry,         \* an extruded icon outline and its normalised geometry
    designs,              \* the parent's list of designs
    activeIndex           \* the parent's index of the design being edited

vars == <<numberOfKeys, keycapPositionsProp, keycapLetters, keycapSvgUrls, showBorder,
          clickerGeometry, keycapGeometryStore, borderGeometryStore, font,
          svgGeometryByUrl, inFlight, exportCall, downloads, stlCallbacks, threw,
          disposed, leaked, lastFetch, exportKeycapStlFn, threlte, takeSnapshotFn,
          snapshot, canvas, iconGeometry, designs, activeIndex>>

propVars == <<numberOfKeys, keycapPositionsProp, keycapLetters, keycapSvgUrls, showBorder>>
assetVars == <<clickerGeometry, keycapGeometryStore, borderGeometryStore, font>>
cacheVars == <<svgGeometryByUrl, inFlight>>
snapshotVars == <<threlte, takeSnapshotFn, snapshot>>
pureVars == <<canvas, iconGeometry>>
appVars == <<designs, activeIndex>>
\* What the steps of the meshes, the props, the icon loader and the export leave alone.
sideVars == <<snapshotVars, pureVars, appVars>>

Null == "null"
\* A store's value before its loader resolves, and a loaded mesh with its bounding box.
NoGeometry == [loaded |-> FALSE, min |-> <<0, 0, 0>>, max |-> <<0, 0, 0>>]
Geometry(box) == [loaded |-> TRUE, min |-> box.min, max |-> box.max]
\* exportCall when the latest step made no export call.  In a call, keycapIndex is <<>>
\* for exportKeycapStl() and <<k>> for exportKeycapStl(k); ready is whether the keycap
\* mesh was loaded; failed is the set of indices whose composite raised an exception.
NoCall == [called |-> FALSE, keycapIndex |-> <<>>, ready |-> FALSE, failed |-> {}]
\* lastFetch when the latest step settled no fetch.  Of a settled fetch, outcome is
\* "geometry" or the way it failed; error is whether an exception left its promise chain.
NoFetch == [url |-> Null, outcome |-> "none", error |-> FALSE]

(***************************************************************************)
(* Bounds of the model.                                                    *)
(***************************************************************************)
\* Legend props (letters, icon URLs) are lists of this length.
MaxLegendKeys == 2
\* A URL has at most this many fetches in flight; a step that would start more is not taken.
MaxInFlight == 2

Min(a, b) == IF a < b THEN a ELSE b
Max(a, b) == IF a > b THEN a ELSE b

(***************************************************************************)
(* The built-in default table, in tenths of a millimetre.                  *)
(***************************************************************************)
\* The table with the last entry of its five-key row left out.
KEYCAP_POSITIONS_ShortRow ==
    << << <<45, 0, 0>> >>,
       << <<-65, 0, 0>>, <<155, 0, 0>> >>,
       << <<-177, 0, 0>>, <<45, 0, 0>>, <<267, 0, 0>> >>,
       << <<-288, 0, 0>>, <<-66, 0, 0>>, <<156, 0, 0>>, <<378, 0, 0>> >>,
       << <<-399, 0, 0>>, <<-177, 0, 0>>, <<45, 0, 0>>, <<267, 0, 0>> >>,
       << <<-510, 0, 0>>, <<-288, 0, 0>>, <<-67, 0, 0>>, <<155, 0, 0>>, <<377, 0, 0>>,
          <<600, 0, 0>> >>,
       << <<-620, 0, 0>>, <<-400, 0, 0>>, <<-178, 0, 0>>, <<45, 0, 0>>, <<267, 0, 0>>,
          <<490, 0, 0>>, <<710, 0, 0>> >> >>

KEYCAP_POSITIONS ==
    << << <<45, 0, 0>> >>,
       << <<-65, 0, 0>>, <<155, 0, 0>> >>,
       << <<-177, 0, 0>>, <<45, 0, 0>>, <<267, 0, 0>> >>,
       << <<-288, 0, 0>>, <<-66, 0, 0>>, <<156, 0, 0>>, <<378, 0, 0>> >>,
       << <<-399, 0, 0>>, <<-177, 0, 0>>, <<45, 0, 0>>, <<267, 0, 0>>, <<488, 0, 0>> >>,
       << <<-510, 0, 0>>, <<-288, 0, 0>>, <<-67, 0, 0>>, <<155, 0, 0>>, <<377, 0, 0>>,
          <<600, 0, 0>> >>,
       << <<-620, 0, 0>>, <<-400, 0, 0>>, <<-178, 0, 0>>, <<45, 0, 0>>, <<267, 0, 0>>,
          <<490, 0, 0>>, <<710, 0, 0>> >> >>

\* Number of body meshes (CLICKER_URLS).
NumClickers == 7

\* Extrusion depth of a placed legend, 1.2 mm.
LEGEND_DEPTH_MM == 12

(***************************************************************************)
(* Inputs.                                                                 *)
(***************************************************************************)
KeyCountInputs == 0 .. 8

\* The bounding box of clicker_<k>.stl: wider with k; the even ones do not start at z = 0.
ClickerBox(k) ==
    [min |-> <<0, 0, IF k % 2 = 0 THEN 20 ELSE 0>>,
     max |-> <<200 + 220 * k, 300, IF k % 2 = 0 THEN 140 ELSE 100>>]

CenteredKeycapBox == [min |-> <<-90, -90, 0>>, max |-> <<90, 90, 60>>]
KeycapBoxes == {CenteredKeycapBox, [min |-> <<0, 0, 10>>, max |-> <<180, 160, 70>>]}

CenteredBorderBox == [min |-> <<-90, -90, 0>>, max |-> <<90, 90, 12>>]
BorderBoxes == {CenteredBorderBox, [min |-> <<10, 0, -4>>, max |-> <<170, 180, 8>>]}

PositionInputs ==
    { <<>>,
      << <<10, 5, -20>>, <<230, 0, 40>> >>,
      << <<-100, 0, 0>>, <<0, 0, 0>>, <<100, -3, 0>> >> }

LetterInputs == {"", "a"}
Urls == {"heart.svg", "star.svg"}
UrlInputs == {Null} \cup Urls

RECURSIVE SeqsOfLen(_, _)
SeqsOfLen(S, n) ==
    IF n = 0 THEN {<<>>}
    ELSE {Append(s, x) : s \in SeqsOfLen(S, n - 1), x \in S}

LetterListInputs == {<<>>} \cup SeqsOfLen(LetterInputs, MaxLegendKeys)
UrlListInputs == {<<>>} \cup SeqsOfLen(UrlInputs, MaxLegendKeys)

(***************************************************************************)
(* Strings: trim, toUpperCase, truthiness.                                 *)
(***************************************************************************)
Trim(s) == IF s = " " THEN "" ELSE s
ToUpperCase(s) == IF s = "a" THEN "A" ELSE s
Truthy(s) == s # Null /\ s # ""
\* list[i] of a JavaScript array, 0-based; Null for an index outside it.
At(list, i) == IF i >= 0 /\ i < Len(list) THEN list[i + 1] ELSE Null
\* list[i]?.trim()
TrimAt(list, i) == IF At(list, i) = Null THEN Null ELSE Trim(At(list, i))
\* Whether list[i] is an element of the array (not undefined).
Has(list, i) == i >= 0 /\ i < Len(list)

(***************************************************************************)
(* Layout: the derived values of Scene.svelte.                             *)
(***************************************************************************)
Center(box) ==
    << (box.min[1] + box.max[1]) \div 2,
       (box.min[2] + box.max[2]) \div 2,
       (box.min[3] + box.max[3]) \div 2 >>

keyIndex == Min(7, Max(1, numberOfKeys)) - 1

stlGeometry == clickerGeometry[keyIndex + 1]

keycapPositions ==
    IF Len(keycapPositionsProp) > 0
    THEN keycapPositionsProp
    ELSE KEYCAP_POSITIONS[keyIndex + 1]

meshPosition ==
    IF ~stlGeometry.loaded THEN <<0, 0, 0>>
    ELSE << -Center(stlGeometry)[1], -stlGeometry.min[3], Center(stlGeometry)[2] >>

clickerTopY ==
    IF ~stlGeometry.loaded THEN 0
    ELSE meshPosition[2] + stlGeometry.max[3]

keycapOffset ==
    IF ~keycapGeometryStore.loaded
    THEN [center |-> <<0, 0, 0>>, minZ |-> 0, maxZ |-> 0]
    ELSE [center |-> Center(keycapGeometryStore),
          minZ |-> keycapGeometryStore.min[3],
          maxZ |-> keycapGeometryStore.max[3]]

\* The keycap transform without the shift by the mesh's own lowest point.
KeycapMeshPositionOf_NoMinZ(p) ==
    << p[1] - keycapOffset.center[1],
       clickerTopY + p[2],
       p[3] + keycapOffset.center[2] >>

KeycapMeshPositionOf(p) ==
    << p[1] - keycapOffset.center[1],
       clickerTopY + p[2] - keycapOffset.minZ,
       p[3] + keycapOffset.center[2] >>

keycapMeshPositions ==
    [i \in 1 .. Len(keycapPositions) |-> KeycapMeshPositionOf(keycapPositions[i])]

borderOffset ==
    IF ~borderGeometryStore.loaded
    THEN [center |-> <<0, 0, 0>>, minZ |-> 0]
    ELSE [center |-> Center(borderGeometryStore), minZ |-> borderGeometryStore.min[3]]

keycapHeight == keycapOffset.maxZ - keycapOffset.minZ

\* The border transform centred with the keycap's bounding box instead of the border's.
BorderMeshPositionOf_KeycapCenter(p) ==
    LET keycapBottomY == clickerTopY + p[2] - keycapOffset.minZ
        keycapTopY == keycapBottomY + keycapHeight
        borderPosY == keycapTopY - borderOffset.minZ
    IN  << p[1] - keycapOffset.center[1], borderPosY, p[3] + keycapOffset.center[2] >>

BorderMeshPositionOf(p) ==
    LET keycapBottomY == clickerTopY + p[2] - keycapOffset.minZ
        keycapTopY == keycapBottomY + keycapHeight
        borderPosY == keycapTopY - borderOffset.minZ
    IN  << p[1] - borderOffset.center[1], borderPosY, p[3] + borderOffset.center[2] >>

borderMeshPositions ==
    [i \in 1 .. Len(keycapPositions) |-> BorderMeshPositionOf(keycapPositions[i])]

(***************************************************************************)
(* World-space extent along the up axis of a placed mesh.  The body, the   *)
(* keycap and the border are rotated by -90 degrees about X with scale     *)
(* FILE_TO_MM = 1, so world Y = position Y + local Z.                      *)
(***************************************************************************)
WorldBottom(pos, box) == pos[2] + box.min[3]
WorldTop(pos, box) == pos[2] + box.max[3]
\* The same rotation gives world X = position X + local X and world Z = position Z -
\* local Y: the world-space (x, z) of the centre of a placed mesh's bounding box.
WorldCenterXZ(pos, box) == << pos[1] + Center(box)[1], pos[3] - Center(box)[2] >>

(***************************************************************************)
(* Initial state and the asset loaders.                                    *)
(***************************************************************************)
\* A step that makes no export call.
NoExport ==
    /\ exportCall' = NoCall
    /\ downloads' = <<>>
    /\ stlCallbacks' = 0
    /\ threw' = FALSE
    /\ disposed' = <<>>
    /\ leaked' = <<>>

\* A step that makes no export call and settles no fetch.
Quiet == NoExport /\ lastFetch' = NoFetch

\* exportKeycapStlFn before the export function is handed over.  Once it is, numberOfKeys
\* is the value the prop had at the handover.
NoHandle == [handed |-> FALSE, numberOfKeys |-> 0]

\* The effect of lines 408-414: the export function is handed over when the keycap store
\* holds a mesh.
ExportReadyEffect(fn, store) ==
    IF store.loaded THEN [handed |-> TRUE, numberOfKeys |-> numberOfKeys] ELSE fn

\* The context before the renderer, the scene or the camera exists.
NoThrelte == [renderer |-> FALSE, scene |-> FALSE, camera |-> FALSE]

\* snapshot before any call.  Of a call: call is "unavailable" (it returned at the
\* availability guard), "noContext" (it rendered and got no 2D canvas context) or
\* "started" (it rendered and left its images loading); renders counts the views
\* rendered; captured is the scene they show and empty whether that scene held no mesh;
\* context is what the context provided at the call; stage is "front" or "top" while
\* that image loads and "done" after the download; drawn lists the images painted on the
\* composite, events the download and the callback.
NoSnapshot ==
    [call |-> "none", context |-> NoThrelte, renders |-> 0, captured |-> <<>>,
     empty |-> FALSE, stage |-> "idle", drawn |-> <<>>, events |-> <<>>, threw |-> FALSE]

\* canvas and iconGeometry while no buffer or outline is at hand.
NoPixels ==
    [width |-> 0, height |-> 0, pixels |-> <<>>, made |-> FALSE, ok |-> FALSE,
     image |-> <<>>]
NoIcon == [given |-> FALSE, normalized |-> FALSE, center |-> <<>>, size |-> <<>>]

\* createDefaultDesign(name) without a saved configuration: one key, the border shown, no
\* letters and the default icon on the one key.  A per-count map is a function from the
\* key counts it has an entry for; a design's name is the number in "Design <number>".
DEFAULT_KEYCAP_SVG_ID == "heart.svg"

createDefaultDesign(name) ==
    [name |-> name,
     showBorder |-> TRUE,
     numberOfKeys |-> 1,
     keycapLettersByCount |-> <<>>,
     keycapSvgByCount |-> (1 :> <<DEFAULT_KEYCAP_SVG_ID>>)]

\* The parts of the state outside the meshes, the props and the icon loader, as they are
\* when nothing has been rendered, converted or edited.
SnapshotIdle(t, fn) == threlte = t /\ takeSnapshotFn = fn /\ snapshot = NoSnapshot
PureIdle == canvas = NoPixels /\ iconGeometry = NoIcon
AppStarted(ds, i) == designs = ds /\ activeIndex = i

\* The scene part of the state after the component is mounted with numberOfKeys = n and
\* every other prop at its default; no loader has resolved.
SceneMounted(n) ==
    /\ numberOfKeys = n
    /\ keycapPositionsProp = <<>>
    /\ keycapLetters = <<>>
    /\ keycapSvgUrls = <<>>
    /\ showBorder = TRUE
    /\ clickerGeometry = [k \in 1 .. NumClickers |-> NoGeometry]
    /\ keycapGeometryStore = NoGeometry
    /\ borderGeometryStore = NoGeometry
    /\ font = FALSE
    /\ svgGeometryByUrl = [u \in Urls |-> 0]
    /\ inFlight = [u \in Urls |-> 0]
    /\ exportCall = NoCall
    /\ downloads = <<>>
    /\ stlCallbacks = 0
    /\ threw = FALSE
    /\ disposed = <<>>
    /\ leaked = <<>>
    /\ lastFetch = NoFetch
    /\ exportKeycapStlFn = NoHandle

\* The state after the component is mounted, before the context is ready, in a parent
\* that starts with one default design.
Mounted(n) ==
    /\ SceneMounted(n)
    /\ SnapshotIdle(NoThrelte, FALSE)
    /\ PureIdle
    /\ AppStarted(<<createDefaultDesign(1)>>, 0)

Init == Mounted(1)

LoadClicker(k) ==
    /\ ~clickerGeometry[k].loaded
    /\ clickerGeometry' = [clickerGeometry EXCEPT ![k] = Geometry(ClickerBox(k))]
    /\ Quiet
    /\ UNCHANGED <<sideVars, exportKeycapStlFn>>
    /\ UNCHANGED <<propVars, keycapGeometryStore, borderGeometryStore, font, cacheVars>>

LoadKeycap(box) ==
    /\ ~keycapGeometryStore.loaded
    /\ keycapGeometryStore' = Geometry(box)
    /\ exportKeycapStlFn' = ExportReadyEffect(exportKeycapStlFn, keycapGeometryStore')
    /\ Quiet
    /\ UNCHANGED sideVars
    /\ UNCHANGED <<propVars, clickerGeometry, borderGeometryStore, font, cacheVars>>

LoadBorder(box) ==
    /\ ~borderGeometryStore.loaded
    /\ borderGeometryStore' = Geometry(box)
    /\ Quiet
    /\ UNCHANGED <<sideVars, exportKeycapStlFn>>
    /\ UNCHANGED <<propVars, clickerGeometry, keycapGeometryStore, font, cacheVars>>

LoadFont ==
    /\ ~font
    /\ font' = TRUE
    /\ Quiet
    /\ UNCHANGED <<sideVars, exportKeycapStlFn>>
    /\ UNCHANGED <<propVars, clickerGeometry, keycapGeometryStore, borderGeometryStore,
                   cacheVars>>

(***************************************************************************)
(* Prop changes delivered by the parent.                                   *)
(***************************************************************************)
SetNumberOfKeys(n) ==
    /\ n # numberOfKeys
    /\ numberOfKeys' = n
    /\ Quiet
    /\ UNCHANGED <<sideVars, exportKeycapStlFn>>
    /\ UNCHANGED <<keycapPositionsProp, keycapLetters, keycapSvgUrls, showBorder,
                   assetVars, cacheVars>>

SetKeycapPositions(ps) ==
    /\ ps # keycapPositionsProp
    /\ keycapPositionsProp' = ps
    /\ Quiet
    /\ UNCHANGED <<sideVars, exportKeycapStlFn>>
    /\ UNCHANGED <<numberOfKeys, keycapLetters, keycapSvgUrls, showBorder,
                   assetVars, cacheVars>>

SetShowBorder(b) ==
    /\ b # showBorder
    /\ showBorder' = b
    /\ Quiet
    /\ UNCHANGED <<sideVars, exportKeycapStlFn>>
    /\ UNCHANGED <<numberOfKeys, keycapPositionsProp, keycapLetters, keycapSvgUrls,
                   assetVars, cacheVars>>

SetKeycapLetters(ls) ==
    /\ ls # keycapLetters
    /\ keycapLetters' = ls
    /\ Quiet
    /\ UNCHANGED <<sideVars, exportKeycapStlFn>>
    /\ UNCHANGED <<numberOfKeys, keycapPositionsProp, keycapSvgUrls, showBorder,
                   assetVars, cacheVars>>

(***************************************************************************)
(* The icon loader: the effect that fills svgGeometryByUrl.                *)
(***************************************************************************)
\* [...new Set((keycapSvgUrls ?? []).filter((u) => !!u))]
RequestedUrls(urls) == {urls[i] : i \in 1 .. Len(urls)} \ {Null, ""}

\* The effect without the Set: a fetch starts for every key whose URL has no cache entry.
SvgEffect_PerKey(urls, cache, flights) ==
    [u \in Urls |->
        IF cache[u] = 0
        THEN flights[u] + Cardinality({i \in 1 .. Len(urls) : urls[i] = u})
        ELSE flights[u]]

\* One run of the effect: a fetch starts for every requested URL with no cache entry.
SvgEffect(urls, cache, flights) ==
    [u \in Urls |->
        IF u \in RequestedUrls(urls) /\ cache[u] = 0 THEN flights[u] + 1 ELSE flights[u]]

WithinFlightBound(flights) == \A u \in Urls : flights[u] <= MaxInFlight

\* The parent delivers keycapSvgUrls (a new array, possibly with the same contents);
\* the effect depends on the prop and runs again.
SetKeycapSvgUrls(us) ==
    /\ keycapSvgUrls' = us
    /\ inFlight' = SvgEffect(us, svgGeometryByUrl, inFlight)
    /\ WithinFlightBound(inFlight')
    /\ Quiet
    /\ UNCHANGED <<sideVars, exportKeycapStlFn>>
    /\ UNCHANGED <<numberOfKeys, keycapPositionsProp, keycapLetters, showBorder,
                   assetVars, svgGeometryByUrl>>

\* The ways a fetch's promise chain ends without geometry: fetch or r.text() rejects,
\* loader.parse throws, or the outline yields no shape (no geometry to merge).
FailureKinds == {"rejected", "parseError", "noShapes"}

\* The chain that stores an entry for an outline without shapes.
CacheAfter_StoresEmpty(cache, u, outcome) ==
    IF outcome \in {"geometry", "noShapes"} THEN [cache EXCEPT ![u] = @ + 1] ELSE cache

\* The cache after the chain of a fetch of u ends with outcome.  Only a chain that built
\* geometry reaches the assignment; the id written is that of a new geometry object: the
\* number of geometries stored under u so far, plus one.
CacheAfter(cache, u, outcome) ==
    IF outcome = "geometry" THEN [cache EXCEPT ![u] = @ + 1] ELSE cache

\* Whether an exception leaves the chain: it ends in .catch(() => {}).
Propagates(outcome) == FALSE

\* A completion that waits until no other URL has a fetch pending, as if the chains were
\* joined before the cache is written.
FetchSucceeds_AfterAll(u) ==
    /\ inFlight[u] > 0
    /\ \A v \in Urls \ {u} : inFlight[v] = 0
    /\ svgGeometryByUrl' = CacheAfter(svgGeometryByUrl, u, "geometry")
    /\ inFlight' = SvgEffect(keycapSvgUrls, svgGeometryByUrl',
                             [inFlight EXCEPT ![u] = @ - 1])
    /\ lastFetch' = [url |-> u, outcome |-> "geometry", error |-> Propagates("geometry")]
    /\ NoExport
    /\ UNCHANGED <<sideVars, exportKeycapStlFn>>
    /\ UNCHANGED <<propVars, assetVars>>

\* A fetch of u resolves and its outline yields geometry: the entry is written, and the
\* effect, which read svgGeometryByUrl, runs again.  A completion is never held back: only
\* prop deliveries are kept within MaxInFlight.
FetchSucceeds(u) ==
    /\ inFlight[u] > 0
    /\ svgGeometryByUrl' = CacheAfter(svgGeometryByUrl, u, "geometry")
    /\ inFlight' = SvgEffect(keycapSvgUrls, svgGeometryByUrl',
                             [inFlight EXCEPT ![u] = @ - 1])
    /\ lastFetch' = [url |-> u, outcome |-> "geometry", error |-> Propagates("geometry")]
    /\ NoExport
    /\ UNCHANGED <<sideVars, exportKeycapStlFn>>
    /\ UNCHANGED <<propVars, assetVars>>

\* A fetch of u rejects, its text does not parse, or it yields no shape.
FetchFails(u) ==
    /\ inFlight[u] > 0
    /\ \E why \in FailureKinds :
        /\ svgGeometryByUrl' = CacheAfter(svgGeometryByUrl, u, why)
        /\ lastFetch' = [url |-> u, outcome |-> why, error |-> Propagates(why)]
    /\ inFlight' = [inFlight EXCEPT ![u] = @ - 1]
    /\ NoExport
    /\ UNCHANGED <<sideVars, exportKeycapStlFn>>
    /\ UNCHANGED <<propVars, assetVars>>

(***************************************************************************)
(* Legends.  A legend is [kind, what, geom, position]: kind "text" with    *)
(* what the glyph's character, kind "svg" with what the URL and geom the   *)
(* id of the cached geometry, or NoLegend.                                 *)
(***************************************************************************)
NoLegend == [kind |-> "none", what |-> "", geom |-> 0, position |-> <<0, 0, 0>>]

\* The position every legend gets: [x, keycapTopY, z].
LegendPositionOf(p) ==
    LET keycapBottomY == clickerTopY + p[2] - keycapOffset.minZ
        keycapTopY == keycapBottomY + (keycapOffset.maxZ - keycapOffset.minZ)
    IN  << p[1], keycapTopY, p[3] >>

\* A legend geometry is centred on its origin and, once scaled, LEGEND_DEPTH_MM deep
\* along the axis the rotation turns into world Y.
LegendWorldBottom(legend) == legend.position[2] - LEGEND_DEPTH_MM \div 2

\* What keycapSvgSlots' map step returns for key i (0-based): NoLegend stands for null.
SvgSlotAt(i) ==
    IF Len(keycapSvgUrls) = 0 \/ Len(keycapPositions) = 0 THEN NoLegend
    ELSE IF ~Has(keycapPositions, i) \/ ~Truthy(TrimAt(keycapSvgUrls, i)) THEN NoLegend
    ELSE [kind |-> "svg", what |-> At(keycapSvgUrls, i), geom |-> 0,
          position |-> LegendPositionOf(keycapPositions[i + 1])]

keycapSvgSlots ==
    SelectSeq([i \in 1 .. Len(keycapPositions) |-> SvgSlotAt(i - 1)],
              LAMBDA slot : slot # NoLegend)

\* What keycapLabels' map step returns for letter i (0-based).
LabelAt(i) ==
    IF ~font \/ Len(keycapLetters) = 0 \/ Len(keycapPositions) = 0 THEN NoLegend
    ELSE IF Truthy(At(keycapSvgUrls, i)) THEN NoLegend
    ELSE IF ~Has(keycapPositions, i) \/ ~Truthy(TrimAt(keycapLetters, i)) THEN NoLegend
    ELSE [kind |-> "text", what |-> ToUpperCase(keycapLetters[i + 1]), geom |-> 0,
          position |-> LegendPositionOf(keycapPositions[i + 1])]

keycapLabels ==
    SelectSeq([i \in 1 .. Len(keycapLetters) |-> LabelAt(i - 1)],
              LAMBDA label : label # NoLegend)

\* The cached geometry under a URL, 0 when there is none.
CachedGeometry(url) == IF url \in Urls THEN svgGeometryByUrl[url] ELSE 0

(***************************************************************************)
(* The live scene: what the template shows for key i (0-based).  A part    *)
(* that is shown is a one-element list holding its position.               *)
(***************************************************************************)
SceneLegend(i) ==
    IF LabelAt(i) # NoLegend THEN LabelAt(i)
    ELSE IF SvgSlotAt(i) # NoLegend /\ CachedGeometry(SvgSlotAt(i).what) # 0
         THEN [SvgSlotAt(i) EXCEPT !.geom = CachedGeometry(SvgSlotAt(i).what)]
    ELSE NoLegend

SceneParts(i) ==
    [keycap |-> IF keycapGeometryStore.loaded THEN <<keycapMeshPositions[i + 1]>> ELSE <<>>,
     border |-> IF showBorder /\ borderGeometryStore.loaded
                THEN <<borderMeshPositions[i + 1]>> ELSE <<>>,
     legend |-> SceneLegend(i)]

(***************************************************************************)
(* exportKeycapStl.                                                        *)
(***************************************************************************)
\* The legend the export puts into the composite of key i.
ExportLegend(i) ==
    LET letter == TrimAt(keycapLetters, i)
        svgUrl == TrimAt(keycapSvgUrls, i)
    IN  IF Truthy(svgUrl) /\ CachedGeometry(svgUrl) # 0
        THEN [kind |-> "svg", what |-> svgUrl, geom |-> CachedGeometry(svgUrl),
              position |-> LegendPositionOf(keycapPositions[i + 1])]
        ELSE IF Truthy(letter) /\ font
        THEN [kind |-> "text", what |-> ToUpperCase(letter), geom |-> 0,
              position |-> LegendPositionOf(keycapPositions[i + 1])]
        ELSE NoLegend

\* The file name: <<i + 1, letter>> for keycap-<i+1>-<letter>.stl, <<i + 1, "">> for
\* keycap-<i+1>.stl.
ExportName(i) ==
    LET letter == TrimAt(keycapLetters, i)
        svgUrl == TrimAt(keycapSvgUrls, i)
    IN  IF Truthy(letter) /\ ~Truthy(svgUrl)
        THEN [index |-> i + 1, letter |-> ToUpperCase(letter)]
        ELSE [index |-> i + 1, letter |-> ""]

\* A composite placed by the layout in force when the export function was handed over
\* (the default layout of the key count of that moment).
ExportFile_AtHandover(i) ==
    LET then == KEYCAP_POSITIONS[Min(7, Max(1, exportKeycapStlFn.numberOfKeys))] IN
    [index |-> i,
     name |-> ExportName(i),
     keycap |-> IF i < Len(then) THEN <<KeycapMeshPositionOf(then[i + 1])>> ELSE <<>>,
     border |-> <<>>,
     legend |-> NoLegend]

\* The composite of key i and the file made from it.
ExportFile(i) ==
    [index |-> i,
     name |-> ExportName(i),
     keycap |-> <<keycapMeshPositions[i + 1]>>,
     border |-> IF showBorder /\ borderGeometryStore.loaded /\ i < Len(borderMeshPositions)
                THEN <<borderMeshPositions[i + 1]>> ELSE <<>>,
     legend |-> ExportLegend(i)]

\* A geometry object: of names the mesh it holds ("keycap", "border", an icon URL or
\* "text"); shared is TRUE for the object the stores or the cache hold and FALSE for one
\* made for a composite.
\* A composite built on the shared object itself, with no copy made.
Clone_Alias(name) == [of |-> name, shared |-> TRUE]

\* geometry.clone(): a new object with the same contents.
Clone(name) == [of |-> name, shared |-> FALSE]

\* The geometries of the meshes in the composite of key i: the keycap clone, the border
\* clone when the border is included, and the legend (a clone of the cached icon geometry,
\* or a new TextGeometry).
ExportGeometries(i) ==
    LET legend == ExportLegend(i) IN
    <<Clone("keycap")>>
    \o (IF showBorder /\ borderGeometryStore.loaded /\ i < Len(borderMeshPositions)
        THEN <<Clone("border")>> ELSE <<>>)
    \o (IF legend.kind = "svg" THEN <<Clone(legend.what)>>
        ELSE IF legend.kind = "text" THEN <<[of |-> "text", shared |-> FALSE]>>
        ELSE <<>>)

\* group.traverse(... obj.geometry.dispose()) at the end of each composite that produced
\* its file: the geometries disposed by a call that produced files.
RECURSIVE DisposedBy(_)
DisposedBy(files) ==
    IF files = <<>> THEN <<>>
    ELSE ExportGeometries(Head(files).index) \o DisposedBy(Tail(files))

\* The geometries allocated for the composite whose exception ended the call: none of
\* them reaches the dispose step.  A negative index raises at positions[i][0], after the
\* keycap clone; an index in failing raises in stlExporter.parse, after every mesh of the
\* composite was built.
LeakedBy(failed) ==
    IF failed = {} THEN <<>>
    ELSE LET i == CHOOSE k \in failed : TRUE
             built == IF i < 0 THEN <<Clone("keycap")>> ELSE ExportGeometries(i)
         IN  SelectSeq(built, LAMBDA g : ~g.shared)

\* The loop over the requested indices.  An index at or past the end is skipped; a
\* negative one reads positions[i] = undefined and raises; an index in failing raises
\* while its composite is cloned, built or serialised.  Nothing catches: the exception
\* leaves the loop and the function.
RECURSIVE ExportLoop(_, _, _)
ExportLoop(indices, failing, files) ==
    IF indices = <<>> THEN [files |-> files, failed |-> {}]
    ELSE LET i == Head(indices) IN
         IF i >= Len(keycapMeshPositions) THEN ExportLoop(Tail(indices), failing, files)
         ELSE IF i < 0 \/ i \in failing THEN [files |-> files, failed |-> {i}]
         ELSE ExportLoop(Tail(indices), failing, Append(files, ExportFile(i)))

ExportIndices(keycapIndex) ==
    IF keycapIndex # <<>> THEN keycapIndex
    ELSE [i \in 1 .. Len(keycapMeshPositions) |-> i - 1]

exportKeycapStl(keycapIndex, failing) ==
    LET out == ExportLoop(ExportIndices(keycapIndex), failing, <<>>) IN
    /\ exportCall' = [called |-> TRUE, keycapIndex |-> keycapIndex,
                      ready |-> keycapGeometryStore.loaded,
                      failed |-> IF keycapGeometryStore.loaded THEN out.failed ELSE {}]
    /\ downloads' = IF keycapGeometryStore.loaded THEN out.files ELSE <<>>
    /\ stlCallbacks' = IF keycapGeometryStore.loaded /\ out.failed = {} THEN 1 ELSE 0
    /\ threw' = (keycapGeometryStore.loaded /\ out.failed # {})
    /\ disposed' = IF keycapGeometryStore.loaded THEN DisposedBy(out.files) ELSE <<>>
    /\ leaked' = IF keycapGeometryStore.loaded THEN LeakedBy(out.failed) ELSE <<>>
    /\ lastFetch' = NoFetch
    /\ UNCHANGED <<sideVars, exportKeycapStlFn>>
    /\ UNCHANGED <<propVars, assetVars, cacheVars>>

ExportIndexInputs == {<<>>, <<-1>>, <<MaxLegendKeys - 1>>, <<MaxLegendKeys>>}
FailingInputs == {{}} \cup {{k} : k \in 0 .. MaxLegendKeys - 1}

(***************************************************************************)
(* takeSnapshot.                                                           *)
(***************************************************************************)
\* What a render of the scene shows: the body when its mesh is loaded, and the parts of
\* every key.  The grid is no part of the model.
RenderedScene ==
    [body |-> IF stlGeometry.loaded THEN <<meshPosition>> ELSE <<>>,
     keys |-> [i \in 1 .. Len(keycapPositions) |-> SceneParts(i - 1)]]

\* getModelBox finds no mesh to measure: its box stays empty, its size is 0 and maxDim
\* falls back to 80.
ModelBoxEmpty(scene) ==
    /\ scene.body = <<>>
    /\ \A i \in 1 .. Len(scene.keys) :
        /\ scene.keys[i].keycap = <<>>
        /\ scene.keys[i].border = <<>>
        /\ scene.keys[i].legend = NoLegend

\* A guard that asks for the renderer only.
Available_RendererOnly(t) == t.renderer

\* if (!renderer || !scene || !camera) return;
Available(t) == t.renderer /\ t.scene /\ t.camera

\* An effect that hands the function over without looking at the context.
SnapshotReadyEffect_Unguarded(fn, t) == TRUE

\* The effect of lines 273-277: the snapshot function is handed over when renderer, scene
\* and camera all exist.
SnapshotReadyEffect(fn, t) == IF t.renderer /\ t.scene /\ t.camera THEN TRUE ELSE fn

ThrelteParts == {"renderer", "scene", "camera"}
ThrelteStates == [ThrelteParts -> BOOLEAN]

\* The context gets one more of its parts.  The effect runs again when it tracks the
\* part, and not otherwise.
ContextReady(part) ==
    /\ ~threlte[part]
    /\ threlte' = [threlte EXCEPT ![part] = TRUE]
    /\ takeSnapshotFn' \in {takeSnapshotFn, SnapshotReadyEffect(takeSnapshotFn, threlte')}
    /\ Quiet
    /\ UNCHANGED <<propVars, assetVars, cacheVars, exportKeycapStlFn, snapshot, pureVars,
                   appVars>>

\* One call of takeSnapshot; canvas2d is whether the document hands out 2D canvas
\* contexts.  Past the guard both views are rendered at once, from the scene as it is.
\* Without a 2D context pixelsToDataUrl returns "" and the function returns at
\* if (!ctx) return; with one, the front image is left loading.  Each call has its own
\* canvas and images; the model follows one call until its download before the next.
takeSnapshot(canvas2d) ==
    /\ snapshot.stage \notin {"front", "top"}
    /\ snapshot' =
        IF ~Available(threlte)
        THEN [NoSnapshot EXCEPT !.call = "unavailable", !.context = threlte]
        ELSE [call |-> IF canvas2d THEN "started" ELSE "noContext",
              context |-> threlte,
              renders |-> 2,
              captured |-> RenderedScene,
              empty |-> ModelBoxEmpty(RenderedScene),
              stage |-> IF canvas2d THEN "front" ELSE "idle",
              drawn |-> <<>>,
              events |-> <<>>,
              threw |-> FALSE]
    /\ Quiet
    /\ UNCHANGED <<propVars, assetVars, cacheVars, exportKeycapStlFn, threlte,
                   takeSnapshotFn, pureVars, appVars>>

\* What an image shows when it is painted: the pixels rendered during the call.
Painted(view) == [view |-> view, shows |-> snapshot.captured]

\* frontImg.onload: the front view is painted and the top image starts loading.
FrontLoaded ==
    /\ snapshot.stage = "front"
    /\ snapshot' = [snapshot EXCEPT !.stage = "top", !.drawn = Append(@, Painted("front"))]
    /\ Quiet
    /\ UNCHANGED <<propVars, assetVars, cacheVars, exportKeycapStlFn, threlte,
                   takeSnapshotFn, pureVars, appVars>>

\* topImg.onload: the top view is painted, the composite is downloaded and then
\* onSnapshotDownloaded is called.
TopLoaded ==
    /\ snapshot.stage = "top"
    /\ snapshot' = [snapshot EXCEPT !.stage = "done", !.drawn = Append(@, Painted("top")),
                                    !.events = <<"download", "callback">>]
    /\ Quiet
    /\ UNCHANGED <<propVars, assetVars, cacheVars, exportKeycapStlFn, threlte,
                   takeSnapshotFn, pureVars, appVars>>

(***************************************************************************)
(* pixelsToDataUrl.  A buffer holds width * height pixels of four channels, *)
(* row after row; canvas.image is the ImageData put on the canvas, and ok  *)
(* is FALSE when the function returned "" for want of a 2D context.        *)
(***************************************************************************)
\* Buffers of up to MaxSide by MaxSide pixels are converted.
MaxSide == 3

\* An index computation that copies every row to its own place.
Src_SameRow(x, y, width, height) == y * width * 4 + x * 4

\* const src = (height - 1 - y) * width * 4 + x * 4;
Src(x, y, width, height) == (height - 1 - y) * width * 4 + x * 4

\* const dst = y * width * 4 + x * 4;
Dst(x, y, width) == y * width * 4 + x * 4

\* imageData.data after the two loops: the four channels at Dst(x, y) are those at
\* Src(x, y).  Indices are 0-based in the code and 1-based in a sequence.
FlippedData(pixels, width, height) ==
    [k \in 1 .. width * height * 4 |->
        LET y == (k - 1) \div (width * 4)
            x == ((k - 1) % (width * 4)) \div 4
            c == (k - 1) - Dst(x, y, width)
        IN  pixels[Src(x, y, width, height) + c + 1]]

\* A buffer whose bytes follow a pattern: byte k is (k * a + b) mod 256.
PatternPixels(width, height, a, b) ==
    [k \in 1 .. width * height * 4 |-> (k * a + b) % 256]

PatternSteps == {1, 37, 101}
PatternStarts == {0, 50, 200, 255}

\* One call of pixelsToDataUrl on the buffer at hand; ctx is whether the canvas hands out
\* a 2D context.
pixelsToDataUrl(ctx) ==
    /\ canvas.width > 0
    /\ ~canvas.made
    /\ canvas' = [canvas EXCEPT
                    !.made = TRUE,
                    !.ok = ctx,
                    !.image = IF ctx THEN FlippedData(canvas.pixels, canvas.width,
                                                      canvas.height)
                              ELSE <<>>]
    /\ Quiet
    /\ UNCHANGED <<propVars, assetVars, cacheVars, exportKeycapStlFn, snapshotVars,
                   iconGeometry, appVars>>

\* The image just made becomes the buffer of a further call.
PixelsAgain ==
    /\ canvas.made
    /\ canvas.ok
    /\ canvas' = [canvas EXCEPT !.pixels = canvas.image, !.made = FALSE, !.ok = FALSE,
                                !.image = <<>>]
    /\ Quiet
    /\ UNCHANGED <<propVars, assetVars, cacheVars, exportKeycapStlFn, snapshotVars,
                   iconGeometry, appVars>>

(***************************************************************************)
(* The normalisation of an icon's geometry.  Coordinates are exact         *)
(* fractions <<numerator, denominator>> with a positive denominator; a     *)
(* geometry is the centre and the size of its bounding box per axis.       *)
(***************************************************************************)
RatLess(a, b) == a[1] * b[2] < b[1] * a[2]
RatEq(a, b) == a[1] * b[2] = b[1] * a[2]
RatMax(a, b) == IF RatLess(a, b) THEN b ELSE a
RatDiv(a, b) == <<a[1] * b[2], a[2] * b[1]>>
RatSub(a, b) == <<a[1] * b[2] - b[1] * a[2], a[2] * b[2]>>

SVG_EXTRUDE_DEPTH == <<2, 1>>
\* The 0.001 of Math.max(..., 0.001) and of zSize > 0.001.
Epsilon == <<1, 1000>>

\* geometry.translate(-center.x, -center.y, -center.z)
Translated(g) ==
    [g EXCEPT !.center = [k \in 1 .. 3 |-> RatSub(g.center[k], g.center[k])]]

\* geometry.scale(1 / dx, 1 / dy, 1 / dz)
Scaled(g, dx, dy, dz) ==
    LET by == <<dx, dy, dz>> IN
    [g EXCEPT !.center = [k \in 1 .. 3 |-> RatDiv(g.center[k], by[k])],
              !.size = [k \in 1 .. 3 |-> RatDiv(g.size[k], by[k])]]

\* Lines 617-646: centre the merged geometry, scale it by 1 / maxDim on all three axes,
\* then scale z by 1 / zSize when zSize > 0.001.
Normalized(g) ==
    LET centred == Translated(g)
        maxDim == RatMax(RatMax(centred.size[1], centred.size[2]),
                         RatMax(centred.size[3], Epsilon))
        unit == Scaled(centred, maxDim, maxDim, maxDim)
        zSize == unit.size[3]
    IN  IF RatLess(Epsilon, zSize) THEN Scaled(unit, <<1, 1>>, <<1, 1>>, zSize) ELSE unit

\* In-plane widths and heights of the outlines, and where their bounding boxes start.
OutlineSizes ==
    {<<1, 2>>, <<1, 1>>, <<2, 1>>, <<3, 1>>, <<24, 1>>, <<512, 1>>, <<4000, 1>>}
OutlineCorners == {<<0, 1>>, <<-12, 1>>}

\* The merged ExtrudeGeometry of an outline w by h whose box starts at corner in both
\* in-plane axes: it spans 0 .. SVG_EXTRUDE_DEPTH in z.
Extruded(w, h, corner) ==
    [given |-> TRUE,
     normalized |-> FALSE,
     center |-> << <<2 * corner[1] * w[2] + w[1] * corner[2], 2 * corner[2] * w[2]>>,
                   <<2 * corner[1] * h[2] + h[1] * corner[2], 2 * corner[2] * h[2]>>,
                   <<SVG_EXTRUDE_DEPTH[1], 2 * SVG_EXTRUDE_DEPTH[2]>> >>,
     size |-> <<w, h, SVG_EXTRUDE_DEPTH>>]

\* The promise chain normalises the geometry it merged.
NormalizeIcon ==
    /\ iconGeometry.given
    /\ ~iconGeometry.normalized
    /\ iconGeometry' = [Normalized(iconGeometry) EXCEPT !.normalized = TRUE]
    /\ Quiet
    /\ UNCHANGED <<propVars, assetVars, cacheVars, exportKeycapStlFn, snapshotVars,
                   canvas, appVars>>

(***************************************************************************)
(* The parent's designs (App.svelte).  A design is a record of its fields; *)
(* a patch is a record of the fields it sets.  The parent derives the      *)
(* props of the scene from the active design; the scene steps above take   *)
(* their props from any parent.                                            *)
(***************************************************************************)
\* At most MaxDesigns designs are added; key counts 1 .. MaxAppKeys are selected.
MaxDesigns == 3
MaxAppKeys == 2

\* c.slice(0, 1) of the strings a letter field can hold.
Slice1(c) == IF c = "ab" THEN "a" ELSE c

\* { ...d, ...patch }
Merge(d, patch) ==
    [f \in (DOMAIN d) \cup (DOMAIN patch) |-> IF f \in DOMAIN patch THEN patch[f] ELSE d[f]]

\* A map step that merges the patch into every design.
PatchedDesigns_All(ds, i, patch) == [idx \in 1 .. Len(ds) |-> Merge(ds[idx], patch)]

\* updateActiveDesign with activeIndex = i: the list it assigns to designs, which is the
\* list itself when i is out of range.
PatchedDesigns(ds, i, patch) ==
    IF i < 0 \/ i >= Len(ds) THEN ds
    ELSE [idx \in 1 .. Len(ds) |-> IF idx - 1 = i THEN Merge(ds[idx], patch) ELSE ds[idx]]

\* designs[activeIndex] ?? designs[0]
activeDesign ==
    IF activeIndex >= 0 /\ activeIndex < Len(designs) THEN designs[activeIndex + 1]
    ELSE designs[1]

\* The letters and the icons the parent derives from design d for key count n.
keycapLettersOf(d, n) ==
    IF n \in DOMAIN d.keycapLettersByCount
    THEN [j \in 1 .. Len(d.keycapLettersByCount[n]) |-> Slice1(d.keycapLettersByCount[n][j])]
    ELSE [j \in 1 .. n |-> ""]

keycapSvgOf(d, n) ==
    IF n \in DOMAIN d.keycapSvgByCount THEN d.keycapSvgByCount[n] ELSE [j \in 1 .. n |-> Null]

\* A patch that holds the new entry alone.
WithEntry_Alone(map, n, next) == n :> next

\* { ...map, [n]: next }
WithEntry(map, n, next) == (n :> next) @@ map

\* next = list.map((l, j) => (j === i ? v : l))
Replaced(list, i, v) == [j \in 1 .. Len(list) |-> IF j - 1 = i THEN v ELSE list[j]]

updateActiveDesign(patch) ==
    /\ designs' = PatchedDesigns(designs, activeIndex, patch)
    /\ UNCHANGED activeIndex
    /\ Quiet
    /\ UNCHANGED <<propVars, assetVars, cacheVars, exportKeycapStlFn, snapshotVars, pureVars>>

\* The handlers of the controls.
selectNumberOfKeys(n) == updateActiveDesign([numberOfKeys |-> n])

toggleShowBorder(b) == updateActiveDesign([showBorder |-> b])

inputLetter(i, value) ==
    LET n == activeDesign.numberOfKeys
        next == Replaced(keycapLettersOf(activeDesign, n), i, Slice1(value))
    IN  updateActiveDesign(
            [keycapLettersByCount |-> WithEntry(activeDesign.keycapLettersByCount, n, next)])

pickIcon(i, id) ==
    LET n == activeDesign.numberOfKeys
        next == Replaced(keycapSvgOf(activeDesign, n), i, id)
    IN  updateActiveDesign(
            [keycapSvgByCount |-> WithEntry(activeDesign.keycapSvgByCount, n, next)])

addDesign ==
    /\ Len(designs) < MaxDesigns
    /\ designs' = Append(designs, createDefaultDesign(Len(designs) + 1))
    /\ activeIndex' = Len(designs') - 1
    /\ Quiet
    /\ UNCHANGED <<propVars, assetVars, cacheVars, exportKeycapStlFn, snapshotVars, pureVars>>

\* An index left as it was after a design is removed.
ClampedIndex_Kept(i, length) == i

\* activeIndex = Math.min(activeIndex, designs.length - 1);
\* if (activeIndex >= designs.length) activeIndex = designs.length - 1;
ClampedIndex(i, length) ==
    IF Min(i, length - 1) >= length THEN length - 1 ELSE Min(i, length - 1)

\* designs.filter((_, i) => i !== index)
Without(ds, index) ==
    [j \in 1 .. Len(ds) - (IF index >= 0 /\ index < Len(ds) THEN 1 ELSE 0) |->
        IF j - 1 < index \/ index < 0 THEN ds[j] ELSE ds[j + 1]]

\* What deleteDesign(index) leaves in designs and activeIndex.
AfterDelete(ds, i, index) ==
    IF Len(ds) <= 1 THEN [designs |-> ds, activeIndex |-> i]
    ELSE [designs |-> Without(ds, index),
          activeIndex |-> ClampedIndex(i, Len(Without(ds, index)))]

deleteDesign(index) ==
    /\ designs' = AfterDelete(designs, activeIndex, index).designs
    /\ activeIndex' = AfterDelete(designs, activeIndex, index).activeIndex
    /\ Quiet
    /\ UNCHANGED <<propVars, assetVars, cacheVars, exportKeycapStlFn, snapshotVars, pureVars>>

\* A click on the tab of design i.
selectDesign(i) ==
    /\ i >= 0 /\ i < Len(designs)
    /\ activeIndex' = i
    /\ UNCHANGED designs
    /\ Quiet
    /\ UNCHANGED <<propVars, assetVars, cacheVars, exportKeycapStlFn, snapshotVars, pureVars>>

\* Saved configurations: no design, one or two, with an index that may be out of range.
SavedDesigns ==
    {<<>>,
     <<createDefaultDesign(1)>>,
     <<createDefaultDesign(1), [createDefaultDesign(2) EXCEPT !.showBorder = FALSE]>>}
SavedIndices == {-1, 0, 1, 5}

\* initialDesigns and initialActive of a saved configuration.
initialDesigns(saved) ==
    IF Len(saved.designs) > 0 THEN saved.designs ELSE <<createDefaultDesign(1)>>
initialActive(saved) == Min(Max(0, saved.activeIndex), Len(initialDesigns(saved)) - 1)

\* Patches the controls make: one field or several.
PatchInputs ==
    {[numberOfKeys |-> n] : n \in 1 .. MaxAppKeys}
    \cup {[showBorder |-> b] : b \in BOOLEAN}
    \cup {[numberOfKeys |-> MaxAppKeys, showBorder |-> FALSE]}

LetterKeyInputs == {"", "a", "ab"}
IconInputs == {Null, "heart.svg"}

(***************************************************************************)
(* Specifications.  Next is every step of the component.  The properties  *)
(* are verified under the specifications defined below it, each of which   *)
(* takes the steps of one part of the engine.                              *)
(***************************************************************************)
Next ==
    \/ \E k \in 1 .. NumClickers : LoadClicker(k)
    \/ \E box \in KeycapBoxes : LoadKeycap(box)
    \/ \E box \in BorderBoxes : LoadBorder(box)
    \/ LoadFont
    \/ \E n \in KeyCountInputs : SetNumberOfKeys(n)
    \/ \E ps \in PositionInputs : SetKeycapPositions(ps)
    \/ \E b \in BOOLEAN : SetShowBorder(b)
    \/ \E ls \in LetterListInputs : SetKeycapLetters(ls)
    \/ \E us \in UrlListInputs : SetKeycapSvgUrls(us)
    \/ \E u \in Urls : FetchSucceeds(u)
    \/ \E u \in Urls : FetchFails(u)
    \/ \E k \in ExportIndexInputs, f \in FailingInputs : exportKeycapStl(k, f)
    \/ \E part \in ThrelteParts : ContextReady(part)
    \/ \E canvas2d \in BOOLEAN : takeSnapshot(canvas2d)
    \/ FrontLoaded
    \/ TopLoaded
    \/ \E ctx \in BOOLEAN : pixelsToDataUrl(ctx)
    \/ PixelsAgain
    \/ NormalizeIcon
    \/ addDesign
    \/ \E index \in -1 .. MaxDesigns : deleteDesign(index)
    \/ \E i \in 0 .. MaxDesigns - 1 : selectDesign(i)
    \/ \E n \in 1 .. MaxAppKeys : selectNumberOfKeys(n)
    \/ \E b \in BOOLEAN : toggleShowBorder(b)
    \/ \E i \in 0 .. MaxAppKeys - 1, value \in LetterKeyInputs : inputLetter(i, value)
    \/ \E i \in 0 .. MaxAppKeys - 1, id \in IconInputs : pickIcon(i, id)

Spec == Init /\ [][Next]_vars

\* Layout: every key count, position list and mesh.
LayoutNext ==
    \/ \E k \in 1 .. NumClickers : LoadClicker(k)
    \/ \E box \in KeycapBoxes : LoadKeycap(box)
    \/ \E box \in BorderBoxes : LoadBorder(box)
    \/ \E n \in KeyCountInputs : SetNumberOfKeys(n)
    \/ \E ps \in PositionInputs : SetKeycapPositions(ps)

LayoutSpec == Init /\ [][LayoutNext]_vars

\* The icon loader, with MaxLegendKeys keys.
FetchNext ==
    \/ \E us \in UrlListInputs : SetKeycapSvgUrls(us)
    \/ \E u \in Urls : FetchSucceeds(u)
    \/ \E u \in Urls : FetchFails(u)

LegendInit == Mounted(MaxLegendKeys)

FetchSpec == LegendInit /\ [][FetchNext]_vars

\* The icon loader when every fetch of star.svg yields geometry and is delivered fairly,
\* while a fetch of heart.svg fails or stays pending for ever.
FetchLiveNext ==
    \/ \E us \in UrlListInputs : SetKeycapSvgUrls(us)
    \/ FetchSucceeds("star.svg")
    \/ FetchFails("heart.svg")

FetchLiveSpec ==
    LegendInit /\ [][FetchLiveNext]_vars /\ WF_vars(FetchSucceeds("star.svg"))

\* Legends and export, with MaxLegendKeys keys and one icon.
HeartListInputs == SeqsOfLen({Null, "heart.svg"}, MaxLegendKeys)

ExportNext ==
    \/ LoadClicker(keyIndex + 1)
    \/ \E box \in KeycapBoxes : LoadKeycap(box)
    \/ LoadBorder(CenteredBorderBox)
    \/ LoadFont
    \/ \E b \in BOOLEAN : SetShowBorder(b)
    \/ \E ls \in SeqsOfLen(LetterInputs, MaxLegendKeys) : SetKeycapLetters(ls)
    \/ \E us \in HeartListInputs : SetKeycapSvgUrls(us)
    \/ FetchSucceeds("heart.svg")
    \/ FetchFails("heart.svg")
    \/ \E k \in ExportIndexInputs, f \in FailingInputs : exportKeycapStl(k, f)

ExportSpec == LegendInit /\ [][ExportNext]_vars

\* Export over the shared meshes: the keycap, the border, the font and one icon load,
\* legends and the border switch change, and every key is exported, with or without an
\* exception at key 0.  The body is left out: it moves the composites and is no part of
\* them.
CloneNext ==
    \/ LoadKeycap(CenteredKeycapBox)
    \/ LoadBorder(CenteredBorderBox)
    \/ LoadFont
    \/ \E b \in BOOLEAN : SetShowBorder(b)
    \/ \E ls \in SeqsOfLen(LetterInputs, MaxLegendKeys) : SetKeycapLetters(ls)
    \/ \E us \in HeartListInputs : SetKeycapSvgUrls(us)
    \/ FetchSucceeds("heart.svg")
    \/ \E f \in {{}, {0}} : exportKeycapStl(<<>>, f)

CloneSpec == LegendInit /\ [][CloneNext]_vars

\* The snapshot and the handing over of the two functions: the context becomes ready,
\* the body and the keycap load, the key count changes, and both functions are called
\* at any moment.
SnapshotNext ==
    \/ \E part \in ThrelteParts : ContextReady(part)
    \/ LoadClicker(keyIndex + 1)
    \/ LoadKeycap(CenteredKeycapBox)
    \/ \E n \in 1 .. MaxLegendKeys : SetNumberOfKeys(n)
    \/ \E canvas2d \in BOOLEAN : takeSnapshot(canvas2d)
    \/ FrontLoaded
    \/ TopLoaded
    \/ exportKeycapStl(<<>>, {})

\* The component mounts in a context that has any of its parts; the effect has run once.
SnapshotInit ==
    /\ SceneMounted(1)
    /\ \E t \in ThrelteStates : SnapshotIdle(t, SnapshotReadyEffect(FALSE, t))
    /\ PureIdle
    /\ AppStarted(<<createDefaultDesign(1)>>, 0)

SnapshotSpec == SnapshotInit /\ [][SnapshotNext]_vars

\* The same steps when an image that is loading does load.
SnapshotLiveSpec ==
    SnapshotInit /\ [][SnapshotNext]_vars /\ WF_vars(FrontLoaded) /\ WF_vars(TopLoaded)

\* pixelsToDataUrl on every pattern buffer of up to MaxSide by MaxSide pixels.
PixelInit ==
    /\ SceneMounted(1)
    /\ SnapshotIdle(NoThrelte, FALSE)
    /\ iconGeometry = NoIcon
    /\ AppStarted(<<createDefaultDesign(1)>>, 0)
    /\ \E width \in 1 .. MaxSide, height \in 1 .. MaxSide,
          a \in PatternSteps, b \in PatternStarts :
        canvas = [NoPixels EXCEPT !.width = width, !.height = height,
                                  !.pixels = PatternPixels(width, height, a, b)]

PixelNext ==
    \/ \E ctx \in BOOLEAN : pixelsToDataUrl(ctx)
    \/ PixelsAgain

PixelSpec == PixelInit /\ [][PixelNext]_vars

\* The normalisation of every extruded outline.
NormalizeInit ==
    /\ SceneMounted(1)
    /\ SnapshotIdle(NoThrelte, FALSE)
    /\ canvas = NoPixels
    /\ AppStarted(<<createDefaultDesign(1)>>, 0)
    /\ \E w \in OutlineSizes, h \in OutlineSizes, corner \in OutlineCorners :
        iconGeometry = Extruded(w, h, corner)

NormalizeNext == NormalizeIcon

NormalizeSpec == NormalizeInit /\ [][NormalizeNext]_vars

\* The list of designs: started from a saved configuration, designs are added, deleted,
\* selected and patched.
AppInit ==
    /\ SceneMounted(1)
    /\ SnapshotIdle(NoThrelte, FALSE)
    /\ PureIdle
    /\ \E ds \in SavedDesigns, i \in SavedIndices :
        LET saved == [designs |-> ds, activeIndex |-> i] IN
        AppStarted(initialDesigns(saved), initialActive(saved))

AppNext ==
    \/ addDesign
    \/ \E index \in -1 .. MaxDesigns : deleteDesign(index)
    \/ \E i \in 0 .. MaxDesigns - 1 : selectDesign(i)
    \/ \E n \in 1 .. MaxAppKeys : selectNumberOfKeys(n)
    \/ \E b \in BOOLEAN : toggleShowBorder(b)

AppSpec == AppInit /\ [][AppNext]_vars

\* The legends of one design: the key count is selected, letters are typed and icons
\* are picked or cleared.
EditInit == Mounted(1)

EditNext ==
    \/ \E n \in 1 .. MaxAppKeys : selectNumberOfKeys(n)
    \/ \E i \in 0 .. MaxAppKeys - 1, value \in LetterKeyInputs : inputLetter(i, value)
    \/ \E i \in 0 .. MaxAppKeys - 1, id \in IconInputs : pickIcon(i, id)

EditSpec == EditInit /\ [][EditNext]_vars

(***************************************************************************)
(* Properties.                                                             *)
(***************************************************************************)
\* The keys of the current layout, 0-based.
Keys == 0 .. Len(keycapPositions) - 1

\* The parts of an exported file, in the shape of SceneParts.
FileParts(file) == [keycap |-> file.keycap, border |-> file.border, legend |-> file.legend]

\* C1: after an export call, every file's composite holds the parts, at the positions,
\* that the live scene shows for that key in the same state.
C1_ExportMatchesScene ==
    exportCall.called =>
        \A k \in 1 .. Len(downloads) : FileParts(downloads[k]) = SceneParts(downloads[k].index)

\* C2: no icon URL ever has two fetches in flight at once.
C2_SingleFlight == \A u \in Urls : inFlight[u] <= 1

\* C3: an entry of the legend cache, once present, is never replaced by a later
\* synthesis of the same URL.
C3_CacheWrittenOnce ==
    [][\A u \in Urls : svgGeometryByUrl[u] # 0 => svgGeometryByUrl'[u] = svgGeometryByUrl[u]]_vars

\* C4: every call of exportKeycapStl fires onKeycapStlDownloaded exactly once, on every
\* path (keycap mesh not loaded, index out of range).
C4_CallbackExactlyOnce == exportCall.called => stlCallbacks = 1

\* C5: in a batch export with the keycap mesh loaded, every index other than one whose
\* composite raised an exception still has its file.
C5_FailureIsolated ==
    (exportCall.called /\ exportCall.ready /\ exportCall.keycapIndex = <<>>) =>
        \A i \in Keys :
            i \notin exportCall.failed =>
                \E k \in 1 .. Len(downloads) : downloads[k].index = i

\* C6: the file of a key that has both an icon and a non-empty letter never holds the
\* letter glyph.
C6_IconWins ==
    exportCall.called =>
        \A k \in 1 .. Len(downloads) :
            LET i == downloads[k].index IN
            (Truthy(TrimAt(keycapSvgUrls, i)) /\ Truthy(TrimAt(keycapLetters, i)))
                => downloads[k].legend.kind # "text"

\* C7: the layout produces as many keycap placements as the clamped key count, whatever
\* position list is supplied.
C7_PlacementCount == Len(keycapMeshPositions) = Min(7, Max(1, numberOfKeys))

\* C8: for every key count N = 1..7 the layout reaches, row N of the default table (the
\* one at index N - 1, selected by keyIndex) has exactly N entries, each with vertical
\* offset 0.
C8_DefaultTable ==
    LET N == keyIndex + 1
        row == KEYCAP_POSITIONS[N]
    IN  /\ N \in 1 .. 7
        /\ Len(row) = N
        /\ \A j \in 1 .. Len(row) : row[j][2] = 0

\* C8 witness: the table's last row is in use and places seven keycaps.
C8_Witness ==
    /\ numberOfKeys = 7
    /\ keycapPositionsProp = <<>>
    /\ keycapGeometryStore.loaded
    /\ Len(keycapMeshPositions) = 7
    /\ \A i \in 1 .. 7 : keycapPositions[i] = KEYCAP_POSITIONS[7][i]

\* C9: with both meshes loaded, the world-space bottom of every border equals the
\* world-space top of its keycap.
C9_BorderOnKeycapTop ==
    (keycapGeometryStore.loaded /\ borderGeometryStore.loaded) =>
        \A i \in Keys :
            WorldBottom(borderMeshPositions[i + 1], borderGeometryStore)
                = WorldTop(keycapMeshPositions[i + 1], keycapGeometryStore)

\* C10: the lowest point of every placed legend, in the live scene and in an exported
\* composite, is at the world-space top of its keycap.
C10_LegendOnKeycapTop ==
    keycapGeometryStore.loaded =>
        /\ \A i \in Keys :
            SceneLegend(i) # NoLegend =>
                LegendWorldBottom(SceneLegend(i))
                    = WorldTop(keycapMeshPositions[i + 1], keycapGeometryStore)
        /\ \A k \in 1 .. Len(downloads) :
            downloads[k].legend # NoLegend =>
                LegendWorldBottom(downloads[k].legend)
                    = WorldTop(keycapMeshPositions[downloads[k].index + 1],
                               keycapGeometryStore)

\* C11: with the body and the keycap mesh loaded, every keycap's world-space bottom is
\* the body's world-space top plus the key's vertical offset, and its world-space top is
\* that bottom plus the depth of the keycap mesh.
C11_KeycapOnBody ==
    (stlGeometry.loaded /\ keycapGeometryStore.loaded) =>
        \A i \in Keys :
            LET bottom == WorldBottom(keycapMeshPositions[i + 1], keycapGeometryStore)
                top == WorldTop(keycapMeshPositions[i + 1], keycapGeometryStore)
            IN  /\ bottom = WorldTop(meshPosition, stlGeometry) + keycapPositions[i + 1][2]
                /\ top = bottom + (keycapGeometryStore.max[3] - keycapGeometryStore.min[3])

\* C11 witness: keycaps stand on a loaded body whose mesh does not start at z = 0; the
\* keycap mesh does not start at z = 0 either and a key has a vertical offset.
C11_Witness ==
    /\ stlGeometry.loaded /\ stlGeometry.min[3] # 0
    /\ keycapGeometryStore.loaded /\ keycapGeometryStore.min[3] # 0
    /\ \E i \in Keys : keycapPositions[i + 1][2] # 0

\* C12 as stated: for every key the keycap transform, the border transform and the legend
\* transform have the same (x, z) components.
C12_SameTransformXZ ==
    (keycapGeometryStore.loaded /\ borderGeometryStore.loaded) =>
        \A i \in Keys :
            LET k == keycapMeshPositions[i + 1]
                b == borderMeshPositions[i + 1]
                l == LegendPositionOf(keycapPositions[i + 1])
            IN  <<k[1], k[3]>> = <<b[1], b[3]>> /\ <<b[1], b[3]>> = <<l[1], l[3]>>

\* C12 amended: for every key the world-space centre of the placed keycap, the world-space
\* centre of the placed border and the legend position (a legend is centred on its
\* origin) have the same (x, z), that of the key's position; the transforms differ from
\* it by the centres of the meshes' bounding boxes.
C12_SameWorldXZ ==
    (keycapGeometryStore.loaded /\ borderGeometryStore.loaded) =>
        \A i \in Keys :
            LET p == keycapPositions[i + 1]
                l == LegendPositionOf(p)
            IN  /\ WorldCenterXZ(keycapMeshPositions[i + 1], keycapGeometryStore)
                        = <<p[1], p[3]>>
                /\ WorldCenterXZ(borderMeshPositions[i + 1], borderGeometryStore)
                        = <<p[1], p[3]>>
                /\ <<l[1], l[3]>> = <<p[1], p[3]>>

\* C12 witness: several keys are laid out with a keycap mesh and a border mesh whose
\* bounding boxes are centred neither on the origin nor on each other.
C12_Witness ==
    /\ keycapGeometryStore.loaded /\ Center(keycapGeometryStore) = <<90, 80, 40>>
    /\ borderGeometryStore.loaded /\ Center(borderGeometryStore) = <<90, 90, 2>>
    /\ Len(keycapPositions) >= 2

\* C13: in every export call made once the function has been handed over (the keycap
\* mesh is loaded), every file holds the border mesh when borders are enabled and none
\* does when they are disabled, also while the border mesh is still loading.
C13_BorderInEveryFile ==
    (exportCall.called /\ exportCall.ready) =>
        \A k \in 1 .. Len(downloads) : (downloads[k].border # <<>>) = showBorder

\* C14: the file of key i carries the 1-based index i + 1, and its name carries a
\* character exactly when the composite holds a text legend, that legend's character.
C14_NameFollowsLegend ==
    exportCall.called =>
        \A k \in 1 .. Len(downloads) :
            LET file == downloads[k] IN
            /\ file.name.index = file.index + 1
            /\ (file.name.letter # "") = (file.legend.kind = "text")
            /\ file.legend.kind = "text" => file.name.letter = file.legend.what

\* C15: a call handed over to the caller downloads, with no index, one file per keycap
\* placement in index order and, with an index k of a key, one file, that of key k.
C15_OneDownloadPerKey ==
    (exportCall.called /\ exportCall.ready) =>
        LET got == [k \in 1 .. Len(downloads) |-> downloads[k].index] IN
        IF exportCall.keycapIndex = <<>>
        THEN got = [k \in 1 .. Len(keycapMeshPositions) |-> k - 1]
        ELSE exportCall.keycapIndex[1] \in Keys => got = exportCall.keycapIndex

\* C16: when an export call has returned, on whatever path, no geometry allocated for a
\* composite is left undisposed.
C16_NothingLeaked == exportCall.called => leaked = <<>>

\* C17: an export call leaves the keycap store, the border store and the legend cache as
\* they were, and every geometry it disposes is one made for a composite, never the
\* shared object.
C17_SharedUntouched ==
    [][exportCall'.called =>
        /\ keycapGeometryStore' = keycapGeometryStore
        /\ borderGeometryStore' = borderGeometryStore
        /\ svgGeometryByUrl' = svgGeometryByUrl
        /\ \A k \in 1 .. Len(disposed') : ~disposed'[k].shared]_vars

\* C17 witness: a batch export built and disposed composites holding the keycap, the
\* border and a cached icon on every key.
C17_Witness ==
    /\ exportCall.called /\ exportCall.keycapIndex = <<>> /\ exportCall.failed = {}
    /\ Len(downloads) = MaxLegendKeys
    /\ \A k \in 1 .. Len(downloads) :
        downloads[k].border # <<>> /\ downloads[k].legend.kind = "svg"
    /\ Len(disposed) = 3 * MaxLegendKeys

\* C18: a run of the effect starts at most one fetch per URL, exactly one for a requested
\* URL with no cache entry when the URL list changes, however many keys share the URL;
\* and every key assigned a cached URL shows the one geometry stored under that URL.
C18_SharedUrlOneFetch ==
    /\ [](\A i \in 0 .. Len(keycapSvgUrls) - 1 :
            CachedGeometry(At(keycapSvgUrls, i)) # 0 =>
                /\ SceneLegend(i).kind = "svg"
                /\ SceneLegend(i).geom = svgGeometryByUrl[At(keycapSvgUrls, i)])
    /\ [][\A u \in Urls :
            /\ inFlight'[u] <= inFlight[u] + 1
            /\ (/\ keycapSvgUrls' # keycapSvgUrls
                /\ u \in RequestedUrls(keycapSvgUrls')
                /\ svgGeometryByUrl[u] = 0) => inFlight'[u] = inFlight[u] + 1]_vars

\* C18 witness: both keys were assigned heart.svg while it was not cached, its fetch
\* has completed, and both keys show the cached geometry.
C18_Witness ==
    /\ keycapSvgUrls = <<"heart.svg", "heart.svg">>
    /\ lastFetch = [url |-> "heart.svg", outcome |-> "geometry", error |-> FALSE]
    /\ inFlight["heart.svg"] = 0
    /\ svgGeometryByUrl["heart.svg"] = 1
    /\ SceneLegend(0).geom = 1 /\ SceneLegend(1).geom = 1

\* C19: a step in which a fetch fails (rejection, parse error, no shape) leaves the
\* legend cache unchanged, so a URL absent from it stays absent, and no exception leaves
\* the promise chain.
C19_FailureLeavesCache ==
    [][lastFetch'.outcome \in FailureKinds =>
        /\ svgGeometryByUrl' = svgGeometryByUrl
        /\ ~lastFetch'.error]_vars

\* C19 witness: the fetch of a requested URL has just ended with an outline without
\* shapes, and the URL is absent from the cache.
C19_Witness ==
    /\ lastFetch.outcome = "noShapes"
    /\ lastFetch.url \in RequestedUrls(keycapSvgUrls)
    /\ svgGeometryByUrl[lastFetch.url] = 0

\* C20: while heart.svg fails or stays pending, star.svg, once requested, is eventually
\* in the legend cache.
C20_OtherUrlsEventuallyCached ==
    ("star.svg" \in RequestedUrls(keycapSvgUrls)) ~> (svgGeometryByUrl["star.svg"] # 0)

\* C20 witness: both URLs are requested, a fetch of heart.svg is still pending with
\* nothing cached for it, and star.svg is in the cache.
C20_Witness ==
    /\ keycapSvgUrls = <<"heart.svg", "star.svg">>
    /\ inFlight["heart.svg"] > 0
    /\ svgGeometryByUrl["heart.svg"] = 0
    /\ svgGeometryByUrl["star.svg"] # 0

\* C21: a snapshot requested while the scene holds no mesh returns without producing a
\* file and without raising an error: of such a call there is never a download or a
\* callback, and no exception.
C21_NoFileBeforeMeshes ==
    (snapshot.call # "none" /\ snapshot.empty) =>
        (snapshot.events = <<>> /\ ~snapshot.threw)

\* C22: a takeSnapshot call made while the renderer, the scene or the camera is missing
\* does nothing: no view is rendered, no image is painted, nothing is downloaded, the
\* callback is not called and no exception is raised.
C22_UnavailableIsNoOp ==
    (snapshot.call # "none"
     /\ ~(snapshot.context.renderer /\ snapshot.context.scene /\ snapshot.context.camera)) =>
        /\ snapshot.renders = 0
        /\ snapshot.stage = "idle"
        /\ snapshot.drawn = <<>>
        /\ snapshot.events = <<>>
        /\ ~snapshot.threw

\* A call made with the renderer at hand and the camera missing returned at the guard.
C22_Witness ==
    /\ snapshot.call = "unavailable"
    /\ snapshot.context.renderer
    /\ ~snapshot.context.camera

\* C23: every takeSnapshot call that passes the availability guard leads to one download
\* followed by one callback, with the front view painted before the top view.
C23_EveryCallDownloads ==
    (snapshot.call \in {"started", "noContext"}) ~>
        (/\ snapshot.stage = "done"
         /\ snapshot.events = <<"download", "callback">>
         /\ [k \in 1 .. Len(snapshot.drawn) |-> snapshot.drawn[k].view] = <<"front", "top">>)

\* C24: an export places every composite by the layout of the parameters in force at
\* the call, whatever they were when the function was handed over; a snapshot captures
\* the scene of the moment of the call, no later step changes what it captured, and the
\* images it paints show what it captured.
C24_CurrentParameters ==
    /\ [](/\ (exportCall.called /\ keycapGeometryStore.loaded /\ ~threw) =>
                /\ Len(downloads) = Len(keycapMeshPositions)
                /\ \A k \in 1 .. Len(downloads) :
                    /\ downloads[k].index = k - 1
                    /\ downloads[k].keycap = <<keycapMeshPositions[k]>>
          /\ \A k \in 1 .. Len(snapshot.drawn) :
                snapshot.drawn[k].shows = snapshot.captured)
    /\ [][/\ (snapshot' # snapshot /\ snapshot'.renders = 2 /\ snapshot'.drawn = <<>>) =>
                snapshot'.captured = RenderedScene'
          /\ (snapshot'.captured # snapshot.captured) =>
                (snapshot'.drawn = <<>> /\ snapshot'.stage \in {"idle", "front"})]_vars

\* Files were exported under a key count other than the one in force when the export
\* function was handed over, while a downloaded snapshot shows a scene that has changed
\* since.
C24_Witness ==
    /\ exportCall.called
    /\ downloads # <<>>
    /\ exportKeycapStlFn.handed
    /\ exportKeycapStlFn.numberOfKeys # numberOfKeys
    /\ snapshot.stage = "done"
    /\ snapshot.captured # RenderedScene

\* C26: the export function is handed over only once the keycap mesh is loaded, the
\* snapshot function only when renderer, scene and camera all exist, and an export called
\* before the keycap mesh is loaded produces no file and raises no error.
C26_HandedWhenReady ==
    /\ exportKeycapStlFn.handed => keycapGeometryStore.loaded
    /\ takeSnapshotFn => (threlte.renderer /\ threlte.scene /\ threlte.camera)
    /\ (exportCall.called /\ ~keycapGeometryStore.loaded) => (downloads = <<>> /\ ~threw)

\* The snapshot function is handed over, the export function is not, and an export was
\* called before the keycap mesh loaded.
C26_Witness ==
    /\ takeSnapshotFn
    /\ ~exportKeycapStlFn.handed
    /\ exportCall.called
    /\ ~keycapGeometryStore.loaded

\* C25: a normalised legend geometry is centred on the origin, its larger in-plane
\* dimension is 1 and its depth is 1, whatever the in-plane size of the outline.
C25_UnitLegend ==
    iconGeometry.normalized =>
        /\ \A k \in 1 .. 3 : iconGeometry.center[k][1] = 0
        /\ RatEq(RatMax(iconGeometry.size[1], iconGeometry.size[2]), <<1, 1>>)
        /\ RatEq(iconGeometry.size[3], <<1, 1>>)

\* C27: the image pixelsToDataUrl makes has the rows of the buffer in reverse order and
\* is otherwise the buffer: channel c of column x in row y is channel c of column x in
\* row height - 1 - y, and converting the image again gives the buffer back.
C27_RowsReversed ==
    (canvas.made /\ canvas.ok) =>
        /\ Len(canvas.image) = Len(canvas.pixels)
        /\ \A y \in 0 .. canvas.height - 1, x \in 0 .. canvas.width - 1, c \in 0 .. 3 :
            canvas.image[(y * canvas.width + x) * 4 + c + 1]
                = canvas.pixels[((canvas.height - 1 - y) * canvas.width + x) * 4 + c + 1]
        /\ FlippedData(canvas.image, canvas.width, canvas.height) = canvas.pixels

\* An image of several rows and columns was made and differs from its buffer.
C27_Witness ==
    /\ canvas.made
    /\ canvas.ok
    /\ canvas.width >= 2
    /\ canvas.height >= 2
    /\ canvas.image # canvas.pixels

\* C28: whatever designs are added, deleted, selected and patched, the list of designs is
\* never empty and activeIndex is an index of it; deleteDesign on a list of one design
\* changes neither the list nor the index.
C28_ActiveIndexInRange ==
    /\ Len(designs) >= 1
    /\ activeIndex >= 0
    /\ activeIndex < Len(designs)
    /\ Len(designs) = 1 =>
        \A index \in -1 .. MaxDesigns :
            AfterDelete(designs, activeIndex, index)
                = [designs |-> designs, activeIndex |-> activeIndex]

\* One of three designs was deleted and the index is that of the last of the two left.
C28_Witness ==
    /\ Len(designs) = 2
    /\ activeIndex = 1
    /\ designs[1].name = 1
    /\ designs[2].name = 3

\* C29: updateActiveDesign(patch) gives the design at activeIndex the patch's values for
\* the patch's fields and leaves its other fields, every other design and the length of
\* the list as they were; with activeIndex out of range it changes nothing.
C29_PatchOnlyActive ==
    /\ [](\A i \in -1 .. Len(designs), patch \in PatchInputs :
            LET new == PatchedDesigns(designs, i, patch) IN
            /\ Len(new) = Len(designs)
            /\ \A idx \in 1 .. Len(designs) :
                IF idx - 1 = i
                THEN /\ DOMAIN new[idx] = DOMAIN designs[idx]
                     /\ \A f \in DOMAIN patch : new[idx][f] = patch[f]
                     /\ \A f \in (DOMAIN designs[idx]) \ (DOMAIN patch) :
                            new[idx][f] = designs[idx][f]
                ELSE new[idx] = designs[idx]
            /\ (i < 0 \/ i >= Len(designs)) => new = designs)
    /\ [][(Len(designs') = Len(designs) /\ activeIndex' = activeIndex) =>
            \A idx \in 1 .. Len(designs) :
                idx - 1 # activeIndex => designs'[idx] = designs[idx]]_vars

\* The active design of two was patched in both fields and the other one was not.
C29_Witness ==
    /\ Len(designs) = 2
    /\ activeIndex = 1
    /\ designs[2].numberOfKeys = MaxAppKeys
    /\ ~designs[2].showBorder
    /\ designs[1].numberOfKeys = 1
    /\ designs[1].showBorder

\* C30: legends are kept per key count.  A step changes the letters or the icons of key
\* count n only while n is the selected count, and selecting another count changes the
\* legends of no count: after a change to another count, edits there and a change back,
\* the letters and icons of n are those that were set.
C30_LegendsPerCount ==
    [][\A n \in 1 .. MaxAppKeys :
        (n # activeDesign.numberOfKeys \/ activeDesign'.numberOfKeys # n) =>
            /\ keycapLettersOf(activeDesign', n) = keycapLettersOf(activeDesign, n)
            /\ keycapSvgOf(activeDesign', n) = keycapSvgOf(activeDesign, n)]_vars

\* One key is selected again, with its letter and its cleared icon as set, after a letter
\* and an icon were set for two keys.
C30_Witness ==
    /\ activeDesign.numberOfKeys = 1
    /\ keycapLettersOf(activeDesign, 1) = <<"a">>
    /\ keycapSvgOf(activeDesign, 1) = <<Null>>
    /\ keycapLettersOf(activeDesign, 2) = <<"", "a">>
    /\ keycapSvgOf(activeDesign, 2) = <<"heart.svg", Null>>

====
